---- MODULE Spec2Model ----
(***************************************************************************)
(* A model of the graphcool CLI engine's Client                            *)
(* (src/cli/packages/graphcool-cli-engine/src/Client/Client.ts) and of the *)
(* deploy service's MigrationStepType schema that the same file carries.   *)
(*                                                                         *)
(* Strings that the code inspects with includes / startsWith are modelled  *)
(* as sequences of chunks: a chunk is one of the patterns the code looks    *)
(* for, text between the patterns is left out, and a pattern never         *)
(* straddles two chunks.                                                   *)
(***************************************************************************)
EXTENDS Integers, Sequences, FiniteSets, TLC

VARIABLES
    config,      \* Client.config
    env,         \* Client.env: which cluster is the active one
    out,         \* Client.out: the reference to the Output object
    mocks,       \* Client.mocks
    tokenCache,  \* Client.tokenCache
    reported,    \* what out.error has been called with, in order
    exited,      \* out.error has ended the process
    call,        \* the call in progress: its arguments, its place, its result,
                 \* and what the clusters have answered to it so far
    validation   \* what the service's schema has against the documents it received

vars == <<config, env, out, mocks, tokenCache, reported, exited, call, validation>>

clientFields == <<config, env, out, mocks, tokenCache>>

----------------------------------------------------------------------------
(* Bounds of the model *)

MaxMessageLen == 2
MaxRetries == 1
MaxPolls == 2
MaxRevision == 2
MaxEdges == 2
MaxBodyLen == 4

----------------------------------------------------------------------------
(* Values *)

Undefined == [kind |-> "undefined"]

NoServiceWithId == "No service with id"
NoValidSession == "No valid session"
ConnRefused == "ECONNREFUSED"
Localhost == "localhost"
Loopback == "127.0.0.1"

Chunks == {NoServiceWithId, NoValidSession, ConnRefused, Localhost, Loopback}

\* the messages of up to MaxMessageLen chunks; a second occurrence of a chunk
\* changes nothing for includes and startsWith, so no chunk occurs twice
Messages ==
    {m \in UNION {[1..n -> Chunks] : n \in 0..MaxMessageLen} :
        \A i, j \in 1..Len(m) : i # j => m[i] # m[j]}

\* e.response of a graphql-request error: absent, or carrying errors[0].message
ErrorResponses == {Undefined, [kind |-> "response", errors |-> <<[message |-> "server says no"]>>]}

Exceptions == [message : Messages, response : ErrorResponses]

\* what reading a property of undefined throws
TypeError == [message |-> <<"TypeError">>, response |-> Undefined]

Clusters == {"local", "shared"}
\* env.clusters, in its order
clusters == <<"local", "shared">>
Null == [kind |-> "null"]
\* cluster.token of each cluster of the environment
token == [cluster \in Clusters |-> <<"token of", cluster>>]
Requests == {[query |-> "q1", variables |-> "v1"], [query |-> "q2", variables |-> "v2"]}
Data == {"d1", "d2"}
ProjectIds == {"cj1"}
Endpoints == {"http://localhost:60000", "http://docker:60000"}
Revisions == 1..MaxRevision

MigrationStatuses == [revision : 0..MaxRevision, hasBeenApplied : BOOLEAN]

\* the arrays of up to MaxEdges elements of S
Arrays(S) == UNION {[1..n -> S] : n \in 0..MaxEdges}

\* the records of the remote service
PATs == {[id |-> "pat1", name |-> "ci", token |-> "secret1"],
         [id |-> "pat2", name |-> "ops", token |-> "secret2"]}
FunctionInfos == {[name |-> "hook", id |-> "fn1", type |-> "AUTH0", stats |-> [requestCount |-> 1, errorCount |-> 0], __typename |-> "Function"],
                  [name |-> "mail", id |-> "fn2", type |-> "WEBHOOK", stats |-> [requestCount |-> 2, errorCount |-> 1], __typename |-> "Function"]}
FunctionLogs == {[id |-> "log1", requestId |-> "r1", duration |-> 3, status |-> "SUCCESS", timestamp |-> "t1", message |-> "ok"],
                 [id |-> "log2", requestId |-> "r2", duration |-> 5, status |-> "FAILURE", timestamp |-> "t2", message |-> "boom"]}
Projects == {[name |-> "service", stage |-> "dev"], [name |-> "service", stage |-> "prod"]}
DeployPayloads == {[errors |-> <<>>, migration |-> [revision |-> 2, steps |-> <<>>, hasBeenApplied |-> FALSE]],
                   [errors |-> <<[type |-> "Model", field |-> "name", description |-> "bad"]>>, migration |-> Null]}

Edges(S) == Arrays({[node |-> n] : n \in S})
LogsConnections == {[pageInfo |-> [endCursor |-> "c"], edges |-> es] : es \in Edges(FunctionLogs)}

\* the well-typed answers to the queries of the unwrapping methods
PatPayloads ==
    {[viewer |-> [project |-> [permanentAuthTokens |-> t]]] :
        t \in {Null} \cup {[edges |-> es] : es \in Edges(PATs)}}
FunctionsPayloads ==
    {[viewer |-> [project |-> [functions |-> [edges |-> es]]]] : es \in Edges(FunctionInfos)}
FunctionLogsPayloads ==
    {[node |-> n] : n \in {Null, [logs |-> Null]} \cup {[logs |-> l] : l \in LogsConnections}}
AllFunctionLogsPayloads ==
    {[viewer |-> [project |-> pr]] :
        pr \in {Null, [functions |-> Null]}
               \cup {[functions |-> [edges |-> es]] :
                        es \in Edges({[logs |-> [edges |-> ls]] : ls \in Edges(FunctionLogs)})}}
ListProjectsPayloads == {[listProjects |-> ps] : ps \in Arrays(Projects)}
DeployResponses == {[deploy |-> d] : d \in DeployPayloads}
AddProjectPayloads == {[addProject |-> [project |-> [name |-> n]]] : n \in {"service", "other"}}

UnwrappingOps == {"getPats", "getFunctions", "getFunctionLogs", "getAllFunctionLogs",
                  "listProjects", "deploy", "addProject"}

\* String.prototype.includes / startsWith on a chunked message
includes(message, pattern) == \E i \in 1..Len(message) : message[i] = pattern
startsWith(message, pattern) == Len(message) >= 1 /\ message[1] = pattern

\* cluster.getDeployEndpoint()
getDeployEndpoint(cluster) == <<"deploy", cluster>>

\* getClient(cluster): a GraphQLClient is its endpoint and its Authorization header
getClient(cluster) ==
    [endpoint |-> getDeployEndpoint(cluster), authorization |-> <<"Bearer", token[cluster]>>]

\* the arguments waitForMigration passes to the wrapper (lines 487-498)
migrationStatusQuery == "migrationStatus"
migrationStatusVariables == <<"stage", "name">>

\* the query waitForLocalDocker sends (lines 460-468)
schemaQuery == "__schema"

NoCall ==
    [op |-> "none", pc |-> "idle", query |-> "none", variables |-> "none", revision |-> 0,
     endpoint |-> "none", valid |-> FALSE, migrationStatus |-> Undefined,
     index |-> 0, foundClusters |-> <<>>, answered |-> <<>>,
     caught |-> Undefined, data |-> Undefined,
     localClient |-> Undefined, inFlight |-> Undefined, retries |-> 0, polls |-> 0,
     result |-> Undefined]

----------------------------------------------------------------------------
(* The deploy mutation's MigrationFragment and the deploy service's
   MigrationStepType *)

\* a field selected under its own name, and one selected under an alias
field(name) == [alias |-> name, name |-> name]
aliased(alias, name) == [alias |-> alias, name |-> name]

\* the inline fragments of steps { ... } in MIGRATION_FRAGMENT
MIGRATION_FRAGMENT ==
    <<[on |-> "CreateEnum", selection |-> <<field("name"), aliased("ce_values", "values")>>],
      [on |-> "CreateField",
       selection |-> <<field("model"), field("name"), aliased("cf_typeName", "typeName"),
                       aliased("cf_isRequired", "isRequired"), aliased("cf_isList", "isList"),
                       aliased("cf_isUnique", "unique"), aliased("cf_relation", "relation"),
                       aliased("cf_defaultValue", "default"), aliased("cf_enum", "enum")>>],
      [on |-> "CreateModel", selection |-> <<field("name")>>],
      [on |-> "CreateRelation", selection |-> <<field("name"), field("leftModel"), field("rightModel")>>],
      [on |-> "DeleteEnum", selection |-> <<field("name")>>],
      [on |-> "DeleteField", selection |-> <<field("model"), field("name")>>],
      [on |-> "DeleteModel", selection |-> <<field("name")>>],
      [on |-> "DeleteRelation", selection |-> <<field("name")>>],
      [on |-> "UpdateEnum", selection |-> <<field("name"), field("newName"), field("values")>>],
      [on |-> "UpdateField",
       selection |-> <<field("model"), field("name"), field("newName"), field("typeName"),
                       field("isRequired"), field("isList"), aliased("isUnique", "unique"),
                       field("relation"), field("default"), field("enum")>>],
      [on |-> "UpdateModel", selection |-> <<field("name"), aliased("um_newName", "newName")>>]>>

\* the MigrationStep interface
Type == [kind |-> "interface", name |-> "MigrationStep", fields |-> {"type"}]

\* an object type that implements MigrationStep and so carries its fields too
fieldsHelper(name, fields) == [kind |-> "object", name |-> name, fields |-> fields \cup Type.fields]

CreateModelType == fieldsHelper("CreateModel", {"name"})
DeleteModelType == fieldsHelper("DeleteModel", {"name"})
UpdateModelType == fieldsHelper("UpdateModel", {"name", "newName"})
CreateEnumType == fieldsHelper("CreateEnum", {"name", "values"})
DeleteEnumType == fieldsHelper("DeleteEnum", {"name"})
UpdateEnumType == fieldsHelper("UpdateEnum", {"name", "newName", "values"})
CreateFieldType ==
    fieldsHelper("CreateField", {"model", "name", "typeName", "isRequired", "isList", "isUnique",
                                 "relation", "defaultValue", "enum"})
DeleteFieldType == fieldsHelper("DeleteField", {"model", "name"})
UpdateFieldType ==
    fieldsHelper("UpdateField", {"model", "name", "newName", "typeName", "isRequired", "isList",
                                 "isUnique", "relation", "defaultValue", "enum"})

allTypes ==
    {Type, CreateModelType, DeleteModelType, UpdateModelType, CreateEnumType, DeleteEnumType,
     UpdateEnumType, CreateFieldType, UpdateFieldType, DeleteFieldType}

\* what the service's schema has to say against the inline fragments of a
\* document: the types it does not declare, the fields a type does not have
violations(fragment) ==
    {[on |-> fragment[i].on, unknown |-> "type"] :
        i \in {k \in 1..Len(fragment) :
                 ~\E t \in allTypes : t.kind = "object" /\ t.name = fragment[k].on}}
    \cup
    UNION {{[on |-> t.name, unknown |-> fragment[i].selection[j].name] :
               j \in {k \in 1..Len(fragment[i].selection) : fragment[i].selection[k].name \notin t.fields}} :
             <<i, t>> \in {p \in (1..Len(fragment)) \X allTypes :
                              p[2].kind = "object" /\ p[2].name = fragment[p[1]].on}}

----------------------------------------------------------------------------
(* The request wrapper returned by the client getter *)

\* a retry that keeps the GraphQLClient of the first attempt
client_request_stale(c) ==
    LET localClient == IF c.localClient = Undefined THEN getClient(env.activeCluster) ELSE c.localClient
    IN  [c EXCEPT !.localClient = localClient,
                  !.inFlight = [client |-> localClient, query |-> c.query, variables |-> c.variables],
                  !.pc = "await"]

\* this.client.request(query, variables) up to its await: the getter builds a
\* client for the active cluster, the wrapper hands it the query and variables
client_request(c) ==
    LET localClient == getClient(env.activeCluster)
    IN  [c EXCEPT !.localClient = localClient,
                  !.inFlight = [client |-> localClient, query |-> c.query, variables |-> c.variables],
                  !.pc = "await"]

\* the catch chain with the session test first
catchBranch_sessionFirst(e) ==
    IF startsWith(e.message, NoValidSession) THEN "retry"
    ELSE IF includes(e.message, NoServiceWithId) THEN "noService"
    ELSE IF includes(e.message, ConnRefused)
            /\ (includes(e.message, Localhost) \/ includes(e.message, Loopback)) THEN "localDown"
    ELSE "rethrow"

\* the catch chain taking every refused connection for the local cluster
catchBranch_anyHost(e) ==
    IF includes(e.message, NoServiceWithId) THEN "noService"
    ELSE IF startsWith(e.message, NoValidSession) THEN "retry"
    ELSE IF includes(e.message, ConnRefused) THEN "localDown"
    ELSE "rethrow"

\* which branch of the wrapper's catch block an exception takes
catchBranch(e) ==
    IF includes(e.message, NoServiceWithId) THEN "noService"
    ELSE IF startsWith(e.message, NoValidSession) THEN "retry"
    ELSE IF includes(e.message, ConnRefused)
            /\ (includes(e.message, Localhost) \/ includes(e.message, Loopback)) THEN "localDown"
    ELSE "rethrow"

\* the texts handed to out.error
accountHint(e) == <<e.response.errors[1].message, " Please check if you are logged in to the right account.">>
localClusterHint == <<"Could not connect to local cluster. Please use ", "graphcool local up", " to start your local Graphcool cluster.">>

\* edges.map(edge => edge.node), with the array reversed
map_node_reversed(edges) == [i \in 1..Len(edges) |-> edges[Len(edges) + 1 - i].node]

\* edges.map(edge => edge.node)
map_node(edges) == [i \in 1..Len(edges) |-> edges[i].node]

\* lodash flatMap of an array of arrays
RECURSIVE flatMap(_)
flatMap(arrays) == IF arrays = <<>> THEN <<>> ELSE Head(arrays) \o flatMap(Tail(arrays))

\* lines 551-578
getPats_result(data) ==
    LET permanentAuthTokens == data.viewer.project.permanentAuthTokens
    IN  IF permanentAuthTokens = Null THEN <<>> ELSE map_node(permanentAuthTokens.edges)

\* lines 593-621
getFunctions_result(data) == map_node(data.viewer.project.functions.edges)

\* lines 653-678
getFunctionLogs_result(data) ==
    IF data.node # Null /\ data.node.logs # Null THEN map_node(data.node.logs.edges) ELSE Null

\* lines 703-741; project.functions.edges is an array, which is truthy
getAllFunctionLogs_result(data) ==
    LET project == data.viewer.project
    IN  IF project # Null /\ project.functions # Null
        THEN flatMap([i \in 1..Len(project.functions.edges) |->
                        map_node(project.functions.edges[i].node.logs.edges)])
        ELSE Null

\* what an unwrapping method returns for the data the wrapper gave it
unwrap(op, data) ==
    CASE op = "getPats" -> getPats_result(data)
      [] op = "getFunctions" -> getFunctions_result(data)
      [] op = "getFunctionLogs" -> getFunctionLogs_result(data)
      [] op = "getAllFunctionLogs" -> getAllFunctionLogs_result(data)
      [] op = "listProjects" -> data.listProjects
      [] op = "deploy" -> data.deploy
      [] op = "addProject" -> data.addProject.project

\* the request is over: the client, the request it carried and the exception
\* caught, if any, are gone
settled(c) == [c EXCEPT !.localClient = Undefined, !.inFlight = Undefined, !.caught = Undefined]

\* a wait loop that returns as soon as one of the two conditions holds
resume_eitherCondition(c, o) ==
    IF c.op = "request"
    THEN [c EXCEPT !.pc = IF o.kind = "throw" THEN "thrown" ELSE "returned", !.result = o]
    ELSE IF o.kind = "throw" THEN [c EXCEPT !.pc = "thrown", !.result = o]
    ELSE IF c.op \in UnwrappingOps
    THEN IF o.kind = "undefined"
         THEN [c EXCEPT !.pc = "thrown", !.result = [kind |-> "throw", error |-> TypeError]]
         ELSE [c EXCEPT !.pc = "returned", !.data = o.value,
                        !.result = [kind |-> "value", value |-> unwrap(c.op, o.value)]]
    ELSE IF o.kind = "undefined"
         THEN [c EXCEPT !.pc = "thrown", !.result = [kind |-> "throw", error |-> TypeError]]
    ELSE IF o.value.revision >= c.revision \/ o.value.hasBeenApplied
         THEN [c EXCEPT !.pc = "returned", !.migrationStatus = o.value]
         ELSE [c EXCEPT !.pc = "sleep", !.migrationStatus = o.value]

\* a wait loop that takes the wrapper's undefined for a finished migration
resume_undefinedIsDone(c, o) ==
    IF c.op = "request"
    THEN [c EXCEPT !.pc = IF o.kind = "throw" THEN "thrown" ELSE "returned", !.result = o]
    ELSE IF o.kind = "throw" THEN [c EXCEPT !.pc = "thrown", !.result = o]
    ELSE IF c.op \in UnwrappingOps
    THEN IF o.kind = "undefined"
         THEN [c EXCEPT !.pc = "thrown", !.result = [kind |-> "throw", error |-> TypeError]]
         ELSE [c EXCEPT !.pc = "returned", !.data = o.value,
                        !.result = [kind |-> "value", value |-> unwrap(c.op, o.value)]]
    ELSE IF o.kind = "undefined" THEN [c EXCEPT !.pc = "returned"]
    ELSE IF o.value.revision >= c.revision /\ o.value.hasBeenApplied
         THEN [c EXCEPT !.pc = "returned", !.migrationStatus = o.value]
         ELSE [c EXCEPT !.pc = "sleep", !.migrationStatus = o.value]

\* what the caller does with the wrapper's outcome o: a plain caller hands it
\* on, an unwrapping method destructures it and returns its part of it,
\* waitForMigration destructures it and tests it (lines 486-508)
resume(c, o) ==
    IF c.op = "request"
    THEN [c EXCEPT !.pc = IF o.kind = "throw" THEN "thrown" ELSE "returned", !.result = o]
    ELSE IF o.kind = "throw" THEN [c EXCEPT !.pc = "thrown", !.result = o]
    ELSE IF c.op \in UnwrappingOps
    THEN IF o.kind = "undefined"
         THEN [c EXCEPT !.pc = "thrown", !.result = [kind |-> "throw", error |-> TypeError]]
         ELSE [c EXCEPT !.pc = "returned", !.data = o.value,
                        !.result = [kind |-> "value", value |-> unwrap(c.op, o.value)]]
    ELSE IF o.kind = "undefined"
         THEN [c EXCEPT !.pc = "thrown", !.result = [kind |-> "throw", error |-> TypeError]]
    ELSE IF o.value.revision >= c.revision /\ o.value.hasBeenApplied
         THEN [c EXCEPT !.pc = "returned", !.migrationStatus = o.value]
         ELSE [c EXCEPT !.pc = "sleep", !.migrationStatus = o.value]

\* out.error(text): the text is reported; Output then either returns, and the
\* wrapper falls out of its catch block with undefined, or ends the process
out_error(text) ==
    /\ reported' = Append(reported, text)
    /\ \/ exited' = FALSE /\ call' = resume(settled(call), Undefined)
       \/ exited' = TRUE /\ call' = [settled(call) EXCEPT !.pc = "exited"]

\* a caller uses the wrapper directly
Request(r) ==
    /\ ~exited /\ call.pc = "idle"
    /\ call' = client_request([call EXCEPT !.op = "request", !.query = r.query, !.variables = r.variables])
    /\ UNCHANGED <<clientFields, reported, exited, validation>>

\* waitForMigration(name, stage, revision) up to its first await
WaitForMigration(revision) ==
    /\ ~exited /\ call.pc = "idle"
    /\ call' = client_request([call EXCEPT !.op = "waitForMigration",
                                           !.query = migrationStatusQuery,
                                           !.variables = migrationStatusVariables,
                                           !.revision = revision,
                                           !.polls = 1])
    /\ UNCHANGED <<clientFields, reported, exited, validation>>

\* a method that sends its query through the wrapper and returns a part of
\* the answer, up to its await
invoke(op, projectId) == client_request([call EXCEPT !.op = op, !.query = op, !.variables = projectId])

idle == ~exited /\ call.pc = "idle"

GetPats(projectId) ==
    /\ idle /\ call' = invoke("getPats", projectId)
    /\ UNCHANGED <<clientFields, reported, exited, validation>>

GetFunctions(projectId) ==
    /\ idle /\ call' = invoke("getFunctions", projectId)
    /\ UNCHANGED <<clientFields, reported, exited, validation>>

GetFunctionLogs(projectId) ==
    /\ idle /\ call' = invoke("getFunctionLogs", projectId)
    /\ UNCHANGED <<clientFields, reported, exited, validation>>

GetAllFunctionLogs(projectId) ==
    /\ idle /\ call' = invoke("getAllFunctionLogs", projectId)
    /\ UNCHANGED <<clientFields, reported, exited, validation>>

ListProjects(projectId) ==
    /\ idle /\ call' = invoke("listProjects", projectId)
    /\ UNCHANGED <<clientFields, reported, exited, validation>>

\* deploy sends its mutation, which carries MIGRATION_FRAGMENT; the service
\* holds the document against its schema (lines 347-370)
Deploy(projectId) ==
    /\ idle /\ call' = invoke("deploy", projectId)
    /\ validation' = violations(MIGRATION_FRAGMENT)
    /\ UNCHANGED <<clientFields, reported, exited>>

AddProject(projectId) ==
    /\ idle /\ call' = invoke("addProject", projectId)
    /\ UNCHANGED <<clientFields, reported, exited, validation>>

WrapperOps == {"request", "waitForMigration"} \cup UnwrappingOps

inWrapper == ~exited /\ call.pc = "await" /\ call.op \in WrapperOps

\* what a successful answer to the call's query can carry
Answers ==
    CASE call.op = "waitForMigration" -> [migrationStatus : MigrationStatuses]
      [] call.op = "getPats" -> PatPayloads
      [] call.op = "getFunctions" -> FunctionsPayloads
      [] call.op = "getFunctionLogs" -> FunctionLogsPayloads
      [] call.op = "getAllFunctionLogs" -> AllFunctionLogsPayloads
      [] call.op = "listProjects" -> ListProjectsPayloads
      [] call.op = "deploy" -> DeployResponses
      [] call.op = "addProject" -> AddProjectPayloads
      [] OTHER -> Data

\* localClient.request resolves with data (line 141)
Resolves(data) ==
    /\ inWrapper
    /\ data \in Answers
    /\ call' = resume(settled(call),
                      [kind |-> "value",
                       value |-> IF call.op = "waitForMigration" THEN data.migrationStatus ELSE data])
    /\ UNCHANGED <<clientFields, reported, exited, validation>>

\* localClient.request rejects with e, which the wrapper catches (line 142)
RequestRejects(e) ==
    /\ inWrapper
    /\ call' = [call EXCEPT !.pc = "caught", !.caught = e]
    /\ UNCHANGED <<clientFields, reported, exited, validation>>

catching == ~exited /\ call.pc = "caught"

\* the message contains 'No service with id' (lines 143-149)
CatchNoService ==
    /\ catching
    /\ catchBranch(call.caught) = "noService"
    /\ IF call.caught.response = Undefined
       THEN /\ call' = resume(settled(call), [kind |-> "throw", error |-> TypeError])
            /\ UNCHANGED <<reported, exited>>
       ELSE out_error(accountHint(call.caught))
    /\ UNCHANGED <<clientFields, validation>>

\* a retry that first stores a fresh token, as ensureAuth would
CatchNoValidSession_cachesToken ==
    /\ catching
    /\ call.retries < MaxRetries
    /\ catchBranch(call.caught) = "retry"
    /\ call' = client_request([call EXCEPT !.caught = Undefined, !.retries = @ + 1])
    /\ tokenCache' = [kind |-> "token", value |-> "fresh"]
    /\ UNCHANGED <<config, env, out, mocks, reported, exited, validation>>

\* the message starts with 'No valid session': the request is sent again
\* through this.client (lines 150-153)
CatchNoValidSession ==
    /\ catching
    /\ call.retries < MaxRetries
    /\ catchBranch(call.caught) = "retry"
    /\ call' = client_request([call EXCEPT !.caught = Undefined, !.retries = @ + 1])
    /\ UNCHANGED <<clientFields, reported, exited, validation>>

\* the message tells of a refused local connection (lines 154-162)
CatchLocalRefused ==
    /\ catching
    /\ catchBranch(call.caught) = "localDown"
    /\ out_error(localClusterHint)
    /\ UNCHANGED <<clientFields, validation>>

\* any other exception is thrown again (lines 163-165)
CatchOther ==
    /\ catching
    /\ catchBranch(call.caught) = "rethrow"
    /\ call' = resume(settled(call), [kind |-> "throw", error |-> call.caught])
    /\ UNCHANGED <<clientFields, reported, exited, validation>>

\* a loop that gives up after its first poll
MigrationTimer_givesUp ==
    /\ ~exited /\ call.op = "waitForMigration" /\ call.pc = "sleep"
    /\ call.polls < MaxPolls
    /\ call' = IF call.polls >= 1
               THEN [call EXCEPT !.pc = "thrown",
                                 !.result = [kind |-> "throw",
                                             error |-> [message |-> <<"timeout">>, response |-> Undefined]]]
               ELSE client_request([call EXCEPT !.polls = @ + 1, !.retries = 0, !.migrationStatus = Undefined])
    /\ UNCHANGED <<clientFields, reported, exited, validation>>

\* the 500 ms timer of waitForMigration fires and the loop asks again (line 508)
MigrationTimer ==
    /\ ~exited /\ call.op = "waitForMigration" /\ call.pc = "sleep"
    /\ call.polls < MaxPolls
    /\ call' = client_request([call EXCEPT !.polls = @ + 1, !.retries = 0, !.migrationStatus = Undefined])
    /\ UNCHANGED <<clientFields, reported, exited, validation>>

----------------------------------------------------------------------------
(* The environment of the Client: the configuration it points to. It changes
   between the steps of a call, not within a catch block, which runs to its
   next await. *)

\* another cluster becomes the active one
SwitchCluster ==
    /\ ~exited /\ call.pc # "caught"
    /\ \E cluster \in Clusters \ {env.activeCluster} : env' = [env EXCEPT !.activeCluster = cluster]
    /\ UNCHANGED <<config, out, mocks, tokenCache, reported, exited, call, validation>>

----------------------------------------------------------------------------
(* getCluster *)

projectQuery == "project"

\* the body of the for loop up to its await: a client of the cluster's own
\* sends the project query (lines 399-417)
getCluster_request(c) ==
    LET localClient == getClient(clusters[c.index])
    IN  [c EXCEPT !.localClient = localClient,
                  !.inFlight = [client |-> localClient, query |-> projectQuery, variables |-> c.variables],
                  !.pc = "await"]

\* the error that names the clusters found (lines 432-435)
ambiguous(c) == [message |-> <<"ambigious", c.variables, c.foundClusters>>, response |-> Undefined]

\* the error of getClusterSafe (lines 444-446)
noCluster(c) == [message |-> <<"No cluster found", c.variables>>, response |-> Undefined]

\* a scan that ends at the first cluster that has the project
getCluster_next_firstMatch(c) ==
    IF c.index < Len(clusters) /\ c.foundClusters = <<>>
    THEN getCluster_request([c EXCEPT !.index = @ + 1])
    ELSE IF Len(c.foundClusters) = 1
         THEN [c EXCEPT !.pc = "returned", !.result = [kind |-> "value", value |-> c.foundClusters[1]]]
    ELSE IF Len(c.foundClusters) > 1
         THEN [c EXCEPT !.pc = "thrown", !.result = [kind |-> "throw", error |-> ambiguous(c)]]
    ELSE IF c.op = "getClusterSafe"
         THEN [c EXCEPT !.pc = "thrown", !.result = [kind |-> "throw", error |-> noCluster(c)]]
    ELSE [c EXCEPT !.pc = "returned", !.result = Null]

\* the end of one iteration: the next cluster, or the result (lines 425-438);
\* getClusterSafe hands the cluster and the exception on and throws where
\* getCluster returns null (lines 442-449)
getCluster_next(c) ==
    IF c.index < Len(clusters)
    THEN getCluster_request([c EXCEPT !.index = @ + 1])
    ELSE IF Len(c.foundClusters) = 1
         THEN [c EXCEPT !.pc = "returned", !.result = [kind |-> "value", value |-> c.foundClusters[1]]]
    ELSE IF Len(c.foundClusters) > 1
         THEN [c EXCEPT !.pc = "thrown", !.result = [kind |-> "throw", error |-> ambiguous(c)]]
    ELSE IF c.op = "getClusterSafe"
         THEN [c EXCEPT !.pc = "thrown", !.result = [kind |-> "throw", error |-> noCluster(c)]]
    ELSE [c EXCEPT !.pc = "returned", !.result = Null]

GetCluster(r) ==
    /\ ~exited /\ call.pc = "idle"
    /\ call' = getCluster_request([call EXCEPT !.op = "getCluster", !.query = projectQuery,
                                               !.variables = r.variables, !.index = 1])
    /\ UNCHANGED <<clientFields, reported, exited, validation>>

\* getClusterSafe(name, stage) up to the first await of the getCluster it calls
GetClusterSafe(r) ==
    /\ ~exited /\ call.pc = "idle"
    /\ call' = getCluster_request([call EXCEPT !.op = "getClusterSafe", !.query = projectQuery,
                                               !.variables = r.variables, !.index = 1])
    /\ UNCHANGED <<clientFields, reported, exited, validation>>

inGetCluster == ~exited /\ call.op \in {"getCluster", "getClusterSafe"} /\ call.pc = "await"

\* the project query is answered, with a project or with null (lines 419-421)
GetClusterResolves(project) ==
    /\ inGetCluster
    /\ call' = getCluster_next(
                  IF project # Null
                  THEN [settled(call) EXCEPT !.foundClusters = Append(@, clusters[call.index]),
                                             !.answered = Append(@, "project")]
                  ELSE [settled(call) EXCEPT !.answered = Append(@, "null")])
    /\ UNCHANGED <<clientFields, reported, exited, validation>>

\* the project query fails with e, which is dropped (lines 422-424)
GetClusterRejects(e) ==
    /\ inGetCluster
    /\ call' = getCluster_next([settled(call) EXCEPT !.answered = Append(@, "error")])
    /\ UNCHANGED <<clientFields, reported, exited, validation>>

----------------------------------------------------------------------------
(* waitForLocalDocker *)

\* request(endpoint, query) of graphql-request, up to its await
docker_request(c) ==
    [c EXCEPT !.inFlight = [endpoint |-> c.endpoint, query |-> schemaQuery],
              !.polls = @ + 1,
              !.pc = "await"]

\* a loop that asks again whatever the answer was
dockerAfterSleep_deaf(c) ==
    IF c.polls < MaxPolls THEN docker_request(c) ELSE [c EXCEPT !.pc = "returned"]

\* the loop test after the 500 ms sleep (lines 455, 476)
dockerAfterSleep(c) ==
    IF c.valid THEN [c EXCEPT !.pc = "returned"] ELSE docker_request(c)

WaitForLocalDocker(endpoint) ==
    /\ ~exited /\ call.pc = "idle"
    /\ call' = docker_request([call EXCEPT !.op = "waitForLocalDocker", !.endpoint = endpoint])
    /\ UNCHANGED <<clientFields, reported, exited, validation>>

inDocker == ~exited /\ call.op = "waitForLocalDocker"

\* the schema query is answered (line 470)
DockerResolves ==
    /\ inDocker /\ call.pc = "await"
    /\ call' = [settled(call) EXCEPT !.pc = "sleep", !.valid = TRUE]
    /\ UNCHANGED <<clientFields, reported, exited, validation>>

\* the schema query fails with e (lines 471-474)
DockerRejects(e) ==
    /\ inDocker /\ call.pc = "await"
    /\ call' = [settled(call) EXCEPT !.pc = "sleep", !.valid = FALSE]
    /\ UNCHANGED <<clientFields, reported, exited, validation>>

\* the 500 ms timer fires (line 476) and the loop test runs
DockerTimer ==
    /\ inDocker /\ call.pc = "sleep"
    /\ call.valid \/ call.polls < MaxPolls
    /\ call' = dockerAfterSleep(call)
    /\ UNCHANGED <<clientFields, reported, exited, validation>>

----------------------------------------------------------------------------
(* download, upload, reset *)

\* A response body is a sequence of JSON tokens, without white space.
BodyChunks == {"[", "]", ",", "1"}
Bodies == UNION {[1..n -> BodyChunks] : n \in 0..MaxBodyLen}
Statuses == {200, 500}
\* serviceName and stage
Services == {<<"service", "dev">>}

\* what JSON.parse makes of the text from its first token on: a value and
\* the text left after it, or a failure
RECURSIVE parseValue(_)
RECURSIVE parseItems(_, _)
parseValue(text) ==
    IF text = <<>> THEN [ok |-> FALSE]
    ELSE IF Head(text) = "1"
         THEN [ok |-> TRUE, value |-> [kind |-> "number", n |-> 1], rest |-> Tail(text)]
    ELSE IF Head(text) = "["
         THEN IF Len(text) >= 2 /\ text[2] = "]"
              THEN [ok |-> TRUE, value |-> [kind |-> "array", items |-> <<>>],
                    rest |-> SubSeq(text, 3, Len(text))]
              ELSE parseItems(Tail(text), <<>>)
    ELSE [ok |-> FALSE]

\* the elements of an array after its bracket, items being those read so far
parseItems(text, items) ==
    LET v == parseValue(text)
    IN  IF ~v.ok THEN [ok |-> FALSE]
        ELSE IF v.rest = <<>> THEN [ok |-> FALSE]
        ELSE IF Head(v.rest) = "]"
             THEN [ok |-> TRUE, value |-> [kind |-> "array", items |-> Append(items, v.value)],
                   rest |-> Tail(v.rest)]
        ELSE IF Head(v.rest) = ","
             THEN parseItems(Tail(v.rest), Append(items, v.value))
        ELSE [ok |-> FALSE]

\* JSON.parse(text): the value, or a SyntaxError
JSON_parse(text) ==
    LET v == parseValue(text)
    IN  IF v.ok /\ v.rest = <<>>
        THEN [kind |-> "value", value |-> v.value]
        ELSE [kind |-> "throw", error |-> [message |-> <<"SyntaxError">>, response |-> Undefined]]

\* a catch block that hands the text back instead of throwing
parseOrThrow_returnsText(c, text) ==
    LET parsed == JSON_parse(text)
    IN  IF parsed.kind = "value"
        THEN [c EXCEPT !.pc = "returned", !.result = parsed]
        ELSE [c EXCEPT !.pc = "returned",
                       !.result = [kind |-> "value", value |-> [kind |-> "text", text |-> text]]]

\* try { return JSON.parse(text) } catch (e) { throw new Error(text) }
\* (lines 227-231, 253-257, 282-286)
parseOrThrow(c, text) ==
    LET parsed == JSON_parse(text)
    IN  IF parsed.kind = "value"
        THEN [c EXCEPT !.pc = "returned", !.result = parsed]
        ELSE [c EXCEPT !.pc = "thrown",
                       !.result = [kind |-> "throw",
                                   error |-> [message |-> text, response |-> Undefined]]]

\* fetch(endpoint, {method: 'post', ...}) up to its await, the endpoint being
\* the active cluster's
fetch(op, endpoint, service) ==
    [call EXCEPT !.op = op, !.pc = "fetch",
                 !.inFlight = [endpoint |-> <<endpoint, env.activeCluster, service>>,
                               method |-> "post"]]

\* lines 211-224
Download(service) ==
    /\ idle /\ call' = fetch("download", "export", service)
    /\ UNCHANGED <<clientFields, reported, exited, validation>>

\* lines 240-250
Upload(service) ==
    /\ idle /\ call' = fetch("upload", "import", service)
    /\ UNCHANGED <<clientFields, reported, exited, validation>>

\* lines 265-279
Reset(service) ==
    /\ idle /\ call' = fetch("reset", "api", service)
    /\ UNCHANGED <<clientFields, reported, exited, validation>>

FetchOps == {"download", "upload", "reset"}

\* fetch resolves with a response of some status; result.text() is called
FetchResolves(status) ==
    /\ ~exited /\ call.op \in FetchOps /\ call.pc = "fetch"
    /\ call' = [settled(call) EXCEPT !.pc = "text", !.data = [status |-> status]]
    /\ UNCHANGED <<clientFields, reported, exited, validation>>

\* fetch rejects: nothing catches e
FetchRejects(e) ==
    /\ ~exited /\ call.op \in FetchOps /\ call.pc = "fetch"
    /\ call' = [settled(call) EXCEPT !.pc = "thrown", !.result = [kind |-> "throw", error |-> e]]
    /\ UNCHANGED <<clientFields, reported, exited, validation>>

\* result.text() resolves with the body, which is parsed
TextResolves(text) ==
    /\ ~exited /\ call.op \in FetchOps /\ call.pc = "text"
    /\ call' = parseOrThrow([call EXCEPT !.data = [status |-> @.status, text |-> text]], text)
    /\ UNCHANGED <<clientFields, reported, exited, validation>>

\* result.text() rejects: nothing catches e
TextRejects(e) ==
    /\ ~exited /\ call.op \in FetchOps /\ call.pc = "text"
    /\ call' = [call EXCEPT !.pc = "thrown", !.result = [kind |-> "throw", error |-> e]]
    /\ UNCHANGED <<clientFields, reported, exited, validation>>

----------------------------------------------------------------------------
Init ==
    /\ config = "config"
    /\ env \in [activeCluster : Clusters]
    /\ out = "output"
    /\ mocks = <<>>
    /\ tokenCache = Undefined
    /\ reported = <<>>
    /\ exited = FALSE
    /\ call = NoCall
    /\ validation = {}

Next ==
    \/ \E r \in Requests : Request(r)
    \/ \E revision \in Revisions : WaitForMigration(revision)
    \/ \E projectId \in ProjectIds : GetPats(projectId)
    \/ \E projectId \in ProjectIds : GetFunctions(projectId)
    \/ \E projectId \in ProjectIds : GetFunctionLogs(projectId)
    \/ \E projectId \in ProjectIds : GetAllFunctionLogs(projectId)
    \/ \E projectId \in ProjectIds : ListProjects(projectId)
    \/ \E projectId \in ProjectIds : Deploy(projectId)
    \/ \E projectId \in ProjectIds : AddProject(projectId)
    \/ \E data \in Answers : Resolves(data)
    \/ inWrapper /\ \E e \in Exceptions : RequestRejects(e)
    \/ CatchOther
    \/ CatchNoValidSession
    \/ CatchLocalRefused
    \/ CatchNoService
    \/ MigrationTimer
    \/ SwitchCluster
    \/ \E r \in Requests : GetCluster(r)
    \/ \E r \in Requests : GetClusterSafe(r)
    \/ \E project \in {Null, [name |-> "service", stage |-> "dev"]} : GetClusterResolves(project)
    \/ inGetCluster /\ \E e \in Exceptions : GetClusterRejects(e)
    \/ \E endpoint \in Endpoints : WaitForLocalDocker(endpoint)
    \/ DockerResolves
    \/ inDocker /\ \E e \in Exceptions : DockerRejects(e)
    \/ DockerTimer
    \/ \E service \in Services : Download(service)
    \/ \E service \in Services : Upload(service)
    \/ \E service \in Services : Reset(service)
    \/ \E status \in Statuses : FetchResolves(status)
    \/ call.pc = "fetch" /\ \E e \in Exceptions : FetchRejects(e)
    \/ call.pc = "text" /\ \E text \in Bodies : TextResolves(text)
    \/ call.pc = "text" /\ \E e \in Exceptions : TextRejects(e)

Spec == Init /\ [][Next]_vars

\* the timers of the wait loops fire
FairSpec == Spec /\ WF_vars(DockerTimer) /\ WF_vars(MigrationTimer)
----------------------------------------------------------------------------
(* The patterns of an exception message, as the specification words them *)

saysNoService(e) == includes(e.message, NoServiceWithId)
saysNoSession(e) == startsWith(e.message, NoValidSession)
saysLocalRefused(e) ==
    includes(e.message, ConnRefused) /\ (includes(e.message, Localhost) \/ includes(e.message, Loopback))
recognised(e) == saysNoService(e) \/ saysNoSession(e) \/ saysLocalRefused(e)

\* a migrationStatus that ends the wait for revision
applied(s, revision) == s.revision >= revision /\ s.hasBeenApplied

\* the wrapper has caught an exception and its catch block is about to run
caught == call.pc = "caught"

\* the client the getter builds for the cluster that is active now
clientNow ==
    [endpoint |-> <<"deploy", env.activeCluster>>,
     authorization |-> <<"Bearer", token[env.activeCluster]>>]

\* the step ends a failed request of waitForLocalDocker
dockerFailed == call.op = "waitForLocalDocker" /\ call.pc = "await" /\ call' # call /\ ~call'.valid

\* the number of log edges of the functions before the i-th one
RECURSIVE logsBefore(_, _)
logsBefore(edges, i) ==
    IF i = 1 THEN 0 ELSE logsBefore(edges, i - 1) + Len(edges[i - 1].node.logs.edges)

\* v holds exactly the nodes of edges, in their order
nodesOf(v, edges) == Len(v) = Len(edges) /\ \A i \in 1..Len(edges) : v[i] = edges[i].node

----------------------------------------------------------------------------
(* The claims *)

\* C1: waitForMigration returns only right after a migrationStatus response
\* whose revision is at least the requested one and whose hasBeenApplied is
\* true; after a response that fails either condition it does not return, it
\* sleeps and then sends the status query again.
C1_ReturnsOnlyWhenApplied ==
    [][call'.op = "waitForMigration" =>
        /\ (call'.pc = "returned" /\ call.pc # "returned") =>
              /\ call.pc = "await"
              /\ call'.migrationStatus # Undefined
              /\ applied(call'.migrationStatus, call.revision)
        /\ (call.pc = "await" /\ call'.pc \in {"sleep", "returned"}
            /\ call'.migrationStatus # Undefined
            /\ ~applied(call'.migrationStatus, call.revision)) => call'.pc = "sleep"
        /\ (call.pc = "sleep" /\ call' # call) =>
              /\ call'.pc = "await"
              /\ call'.inFlight.query = migrationStatusQuery
              /\ call'.inFlight.variables = migrationStatusVariables
    ]_vars

C1_Witness ==
    /\ call.op = "waitForMigration" /\ call.pc = "returned" /\ call.polls = 2
    /\ call.migrationStatus.revision > call.revision

\* C2, as stated: in neither wait loop does a failed request make the loop
\* return or throw to its caller.
C2_NeverExitsOnError ==
    [][(dockerFailed \/ (call.op = "waitForMigration" /\ caught))
        => call'.pc \notin {"returned", "thrown"}]_vars

\* C2, amended: waitForLocalDocker never exits because of an error.
\* waitForMigration never returns because of one, but only a failure whose
\* message starts with 'No valid session' and does not contain 'No service
\* with id' is asked again; every other failed status query ends the loop,
\* with an exception thrown to the caller or with the end of the process.
C2_OnlyDockerSurvivesErrors ==
    [][/\ dockerFailed => call'.pc = "sleep"
       /\ (call.op = "waitForMigration" /\ caught) =>
             IF saysNoSession(call.caught) /\ ~saysNoService(call.caught)
             THEN call'.pc = "await"
             ELSE call'.pc \in {"thrown", "exited"}
    ]_vars

C2_Witness ==
    /\ call.op = "waitForMigration" /\ call.pc = "thrown" /\ call.polls = 2
    /\ call.result.error.message = <<ConnRefused>>

\* C3: waitForMigration has no timeout: after every successful response that
\* does not satisfy the condition it sleeps, and after every sleep it polls
\* again, whatever the number of polls so far; it neither returns nor throws.
C3_PollsWithoutBound ==
    [][call.op = "waitForMigration" =>
        /\ (call.pc = "await" /\ call'.pc \notin {"await", "caught"}
            /\ call'.migrationStatus # Undefined
            /\ ~applied(call'.migrationStatus, call.revision)) => call'.pc = "sleep"
        /\ (call.pc = "sleep" /\ call' # call) =>
              call'.pc = "await" /\ call'.polls = call.polls + 1
    ]_vars

C3_Witness ==
    /\ call.op = "waitForMigration" /\ call.pc = "sleep" /\ call.polls = MaxPolls
    /\ call.migrationStatus.revision >= call.revision /\ ~call.migrationStatus.hasBeenApplied
\* C4: an exception whose message matches none of the recognised patterns
\* is thrown on to the caller as it is, and out.error is not called; a
\* refused connection to a host that is not local is one of them.
C4_UnrecognisedIsRethrown ==
    [][(caught /\ ~recognised(call.caught)) =>
          /\ call'.pc = "thrown"
          /\ call'.result = [kind |-> "throw", error |-> call.caught]
          /\ reported' = reported
          /\ exited' = exited
    ]_vars

C4_Witness ==
    /\ call.pc = "thrown" /\ call.op \in WrapperOps
    /\ call.result.error.message = <<ConnRefused>>
    /\ reported = <<>>

\* C5, as stated: for every failure whose message matches one of the
\* recognised patterns a hint is reported through out.error.
C5_EveryRecognisedIsReported ==
    [][(caught /\ recognised(call.caught)) => Len(reported') = Len(reported) + 1]_vars

\* C5, amended: a hint is reported for a message that contains 'No service
\* with id' when the exception carries a response (the server's message and
\* the advice to check the account), and for a refused local connection that
\* neither contains 'No service with id' nor starts with 'No valid session'
\* (the advice to start the local cluster). A message that starts with 'No
\* valid session' gets no hint, and neither does 'No service with id' on an
\* exception without a response, which ends in a TypeError.
C5_HintsByBranch ==
    [][caught =>
        IF saysNoService(call.caught)
        THEN IF call.caught.response # Undefined
             THEN reported' = Append(reported, <<call.caught.response.errors[1].message,
                                                 " Please check if you are logged in to the right account.">>)
             ELSE /\ reported' = reported
                  /\ call'.pc = "thrown" /\ call'.result.error = TypeError
        ELSE IF saysNoSession(call.caught) THEN reported' = reported
        ELSE IF saysLocalRefused(call.caught)
             THEN reported' = Append(reported, <<"Could not connect to local cluster. Please use ",
                                                 "graphcool local up",
                                                 " to start your local Graphcool cluster.">>)
        ELSE reported' = reported
    ]_vars

C5_Witness ==
    /\ Len(reported) = 1
    /\ reported[1] = <<"server says no", " Please check if you are logged in to the right account.">>
    /\ call.op = "request" /\ call.pc = "returned" /\ call.result = Undefined

C7_RecordsPassThrough ==
    (call.pc = "returned" /\ call.op \in UnwrappingOps) =>
        LET v == call.result.value
            data == call.data
        IN  CASE call.op = "getPats" ->
                    LET t == data.viewer.project.permanentAuthTokens
                    IN  IF t = Null THEN v = <<>> ELSE nodesOf(v, t.edges)
              [] call.op = "getFunctions" -> nodesOf(v, data.viewer.project.functions.edges)
              [] call.op = "getFunctionLogs" ->
                    IF data.node = Null THEN v = Null
                    ELSE IF data.node.logs = Null THEN v = Null
                    ELSE nodesOf(v, data.node.logs.edges)
              [] call.op = "getAllFunctionLogs" ->
                    LET project == data.viewer.project
                    IN  IF project = Null THEN v = Null
                        ELSE IF project.functions = Null THEN v = Null
                        ELSE LET fs == project.functions.edges
                             IN  /\ Len(v) = logsBefore(fs, Len(fs) + 1)
                                 /\ \A i \in 1..Len(fs) :
                                       \A j \in 1..Len(fs[i].node.logs.edges) :
                                          v[logsBefore(fs, i) + j] = fs[i].node.logs.edges[j].node
              [] call.op = "listProjects" -> v = data.listProjects
              [] call.op = "deploy" -> v = data.deploy
              [] call.op = "addProject" -> v = data.addProject.project

C7_Witness ==
    /\ call.pc = "returned" /\ call.op = "getAllFunctionLogs"
    /\ call.data.viewer.project # Null
    /\ call.data.viewer.project.functions # Null
    /\ Len(call.data.viewer.project.functions.edges) = 2
    /\ Len(call.result.value) = 2
    /\ call.result.value[1].id = "log1" /\ call.result.value[2].id = "log2"
\* C8, as stated: every inline fragment of MigrationFragment is on an object
\* type of MigrationStepType.allTypes and selects only fields which that
\* type has under that name, so the service's schema has nothing against
\* the deploy mutation.
C8_FragmentIsValid ==
    call.op = "deploy" =>
        /\ validation = {}
        /\ \A i \in 1..Len(MIGRATION_FRAGMENT) :
              \E t \in allTypes :
                 /\ t.kind = "object" /\ t.name = MIGRATION_FRAGMENT[i].on
                 /\ \A j \in 1..Len(MIGRATION_FRAGMENT[i].selection) :
                       MIGRATION_FRAGMENT[i].selection[j].name \in t.fields

C8_Witness ==
    /\ call.op = "deploy" /\ call.pc = "await"
    /\ [on |-> "CreateRelation", unknown |-> "type"] \in validation
    /\ [on |-> "CreateField", unknown |-> "unique"] \in validation

\* C9, as stated: a failure whose message starts with 'No valid session' is
\* followed by the same query and variables sent through a client built for
\* the cluster that is active at that moment.
C9_NoSessionIsRetried ==
    [][(caught /\ saysNoSession(call.caught)) =>
          /\ call'.pc = "await"
          /\ call'.inFlight = [client |-> clientNow, query |-> call.inFlight.query,
                               variables |-> call.inFlight.variables]
    ]_vars

\* C9, amended: a failure whose message starts with 'No valid session' and
\* does not contain 'No service with id' is followed by the same query and
\* variables sent through a client built for the cluster that is active at
\* that moment, for the same caller, who gets the outcome of the retry; a
\* failed retry is handled like the first failure, whatever the number of
\* retries so far. A message that also contains 'No service with id' is not
\* retried.
C9_NoSessionIsRetriedUnlessNoService ==
    [][caught =>
          IF saysNoSession(call.caught) /\ ~saysNoService(call.caught)
          THEN /\ call'.pc = "await"
               /\ call'.inFlight = [client |-> clientNow, query |-> call.inFlight.query,
                                    variables |-> call.inFlight.variables]
               /\ call'.op = call.op /\ call'.retries = call.retries + 1
               /\ call'.result = Undefined
          ELSE call'.pc \in {"returned", "thrown", "exited"}
    ]_vars

C9_Witness ==
    /\ call.op = "request" /\ call.retries = 1 /\ call.pc = "returned"
    /\ call.result.kind = "value"

\* C10: in waitForLocalDocker a failed request is followed, after the sleep,
\* by another request to the same endpoint; a successful one is followed by
\* the sleep and the return, with no request after it; so the call returns
\* once the endpoint has answered.
C10_DockerReturnsAfterFirstAnswer ==
    /\ [][call.op = "waitForLocalDocker" =>
            /\ (call.pc = "await" /\ call' # call) => call'.pc = "sleep"
            /\ (call.pc = "sleep" /\ call' # call) =>
                  IF call.valid
                  THEN call'.pc = "returned"
                  ELSE /\ call'.pc = "await"
                       /\ call'.inFlight = [endpoint |-> call.endpoint, query |-> schemaQuery]
            /\ call.valid => call'.pc # "await"
       ]_vars
    /\ []((call.op = "waitForLocalDocker" /\ call.valid) => <>(call.pc = "returned"))

C10_Witness ==
    /\ call.op = "waitForLocalDocker" /\ call.pc = "returned" /\ call.polls = 2
\* the clusters that have answered with a project, in the order of env.clusters
RECURSIVE reporting(_)
reporting(answered) ==
    IF answered = <<>> THEN <<>>
    ELSE LET before == reporting(SubSeq(answered, 1, Len(answered) - 1))
         IN  IF answered[Len(answered)] = "project"
             THEN Append(before, clusters[Len(answered)])
             ELSE before

\* C11: getCluster asks every cluster of env.clusters in order, each through
\* a client of its own, and goes on after a failed request and after an
\* empty project; it returns the cluster when exactly one has the project,
\* null when none has, and throws the error naming all the clusters that
\* have it when several do; getClusterSafe returns the same cluster, throws
\* the same error, and throws where getCluster returns null.
C11_GetClusterScansAll ==
    /\ []((call.op \in {"getCluster", "getClusterSafe"} /\ call.pc \in {"returned", "thrown"}) =>
            /\ Len(call.answered) = Len(clusters)
            /\ LET found == reporting(call.answered)
               IN  IF Len(found) = 1
                   THEN call.pc = "returned" /\ call.result = [kind |-> "value", value |-> found[1]]
                   ELSE IF Len(found) > 1
                   THEN /\ call.pc = "thrown"
                        /\ call.result.error.message = <<"ambigious", call.variables, found>>
                   ELSE IF call.op = "getCluster"
                   THEN call.pc = "returned" /\ call.result = Null
                   ELSE /\ call.pc = "thrown"
                        /\ call.result.error.message = <<"No cluster found", call.variables>>)
    /\ [][(call'.op \in {"getCluster", "getClusterSafe"} /\ call'.pc = "await" /\ call' # call) =>
            /\ Len(call'.answered) < Len(clusters)
            /\ call'.inFlight =
                  [client |-> [endpoint |-> <<"deploy", clusters[Len(call'.answered) + 1]>>,
                               authorization |-> <<"Bearer", token[clusters[Len(call'.answered) + 1]]>>],
                   query |-> projectQuery, variables |-> call'.variables]
       ]_vars

C11_Witness ==
    /\ call.op = "getClusterSafe" /\ call.pc = "returned"
    /\ call.answered = <<"error", "project">>
    /\ call.result.value = "shared"
\* the text of a JSON value, token by token
RECURSIVE stringify(_)
RECURSIVE joined(_)
stringify(v) ==
    IF v.kind = "number" THEN <<"1">> ELSE <<"[">> \o joined(v.items) \o <<"]">>
joined(items) ==
    IF items = <<>> THEN <<>>
    ELSE IF Len(items) = 1 THEN stringify(items[1])
    ELSE stringify(items[1]) \o <<",">> \o joined(Tail(items))

\* the JSON values of at most the given depth with arrays of at most two
\* elements: at depth 2, every value whose text has five tokens or fewer
RECURSIVE JsonValues(_)
JsonValues(depth) ==
    IF depth = 0 THEN {[kind |-> "number", n |-> 1]}
    ELSE {[kind |-> "number", n |-> 1]}
         \cup {[kind |-> "array", items |-> items] :
                  items \in UNION {[1..n -> JsonValues(depth - 1)] : n \in 0..2}}

\* the text is the text of a JSON value
validJson(text) == \E v \in JsonValues(2) : stringify(v) = text

\* C12: once the body has been read, download, upload and reset return the
\* JSON value the body is the text of whenever it is the text of one,
\* whatever the status of the response, and otherwise throw an Error whose
\* message is the body; they return nothing that is not a parsed value.
C12_ParsedOrThrown ==
    (call.op \in FetchOps /\ call.pc \in {"returned", "thrown"} /\ "text" \in DOMAIN call.data) =>
        IF validJson(call.data.text)
        THEN /\ call.pc = "returned"
             /\ call.result.kind = "value"
             /\ call.result.value.kind \in {"number", "array"}
             /\ stringify(call.result.value) = call.data.text
        ELSE /\ call.pc = "thrown"
             /\ call.result = [kind |-> "throw",
                               error |-> [message |-> call.data.text, response |-> Undefined]]

C12_Witness ==
    /\ call.op = "download" /\ call.pc = "returned"
    /\ call.data.status = 500
    /\ call.data.text = <<"[", "[", "]", "]">>
    /\ call.result.value = [kind |-> "array", items |-> <<[kind |-> "array", items |-> <<>>]>>]

====
